---- MODULE Spec2Model ----
(***************************************************************************)
(* Model of the RabbitMQ connection lifecycle manager (ConnectionManager)  *)
(* of the AMQP logger service.  Every async method is split at its await   *)
(* points: the code between two awaits runs to completion on the event     *)
(* loop and is one action; the settlement of an awaited promise and the    *)
(* delivery of a broker event are separate actions that may interleave     *)
(* with the other calls in flight.                                         *)
(***************************************************************************)
EXTENDS Integers, Sequences, FiniteSets, TLC

\* ---------------------------------------------------------------- bounds
MaxAttempts == 3      \* reconnectAttempts ranges over 1..MaxAttempts
MaxCalls == 3         \* manager method calls made by the caller in one run
MaxObservers == 2     \* callbacks registered with onStateChange
MaxChannels == 2      \* channels getChannel() hands to the consumer
MaxSignals == 2       \* signals the process receives in one run

\* ------------------------------------------------------------- constants
DEFAULT_RECONNECT_DELAY_MS == 1000

States == {"disconnected", "connecting", "connected"}
CallIds == 1..MaxCalls
\* Every call opens at most one connection and creates at most one channel.
ConnIds == 1..MaxCalls
ChanIds == 1..MaxCalls
Observers == 1..MaxObservers

VARIABLES
  state,             \* ConnectionManager._state
  connection,        \* ConnectionManager.connection (0 = null)
  channel,           \* ConnectionManager.channel (0 = null)
  stateCallbacks,    \* ConnectionManager.stateCallbacks
  isShuttingDown,    \* ConnectionManager.isShuttingDown
  reconnectAttempts, \* ConnectionManager.reconnectAttempts
  reconnectDelayMs,  \* ConnectionManager.reconnectDelayMs
  calls,             \* the frames of the manager calls made so far
  notified,          \* callback invocations so far: <<observer, state>>
  nextConn,          \* connections the broker client has handed out
  openConns,         \* connections that are open at the broker
  connCloseFired,    \* connections whose 'close' event has been emitted
  nextChan,          \* channels the broker client has handed out
  chanParent,        \* channel -> the connection it was created on
  openChans,         \* channels that are open at the broker
  chanCloseFired,    \* channels whose 'close' event has been emitted
  lastErrorLog,      \* the last message logged at level error ("none" = none yet)
  \* MessageConsumer
  isRunning,         \* MessageConsumer.isRunning
  consumerTag,       \* MessageConsumer.consumerTag (0 = null)
  dlqEnabled,        \* MessageConsumer.dlq.enabled
  ccalls,            \* the frames of the start() and stop() calls made so far
  chansSeen,         \* channels getChannel() has returned to the consumer
  nextTag,           \* consumer tags the broker has handed out
  subscriptions,     \* subscriptions at the broker: [tag, chan]
  handled,           \* what the delivery callback did with the last delivery
  \* service entry point (index.ts)
  mainPc,            \* where main() / startService() is
  stopPc,            \* where shutdown() / stopService() is
  handlerIsShuttingDown, \* isShuttingDown of setupShutdownHandlers
  signals,           \* the signals received so far
  serviceLog,        \* the calls made on the components, in order
  exitCodes          \* the codes process.exit was called with

managerVars ==
  <<state, connection, channel, stateCallbacks, isShuttingDown,
    reconnectAttempts, reconnectDelayMs, calls, notified,
    nextConn, openConns, connCloseFired,
    nextChan, chanParent, openChans, chanCloseFired, lastErrorLog>>

consumerVars ==
  <<isRunning, consumerTag, dlqEnabled, ccalls, chansSeen, nextTag,
    subscriptions, handled>>

serviceVars ==
  <<mainPc, stopPc, handlerIsShuttingDown, signals, serviceLog, exitCodes>>

vars == <<managerVars, consumerVars, serviceVars>>

config == <<reconnectAttempts, reconnectDelayMs>>
brokerConns == <<nextConn, openConns, connCloseFired>>
brokerChans == <<nextChan, chanParent, openChans, chanCloseFired>>

\* The frame of a call that has not been made yet.  While the call is in
\* flight the frame holds the locals of the method (attempt, lastError, the
\* object a close or createChannel call was made on), the calls it has made
\* on the broker client and on the timer (attempts, sleeps, creates) and
\* the state and the number of callback invocations at the time of the
\* call; once settled it holds what the caller gets.
NoCall ==
  [op |-> "none", pc |-> "idle",
   attempt |-> 0, lastError |-> 0,
   attempts |-> 0, sleeps |-> <<>>, creates |-> 0, target |-> 0,
   startState |-> "none", startLog |-> 0,
   result |-> "none", errAttempts |-> 0, errLast |-> 0, ret |-> 0]

\* The frame of a call at the moment the caller invokes the method.
Enter(op) ==
  [NoCall EXCEPT !.op = op, !.startState = state, !.startLog = Len(notified)]

\* The frame of a call whose promise settles with res in this step: the
\* locals are gone, the result (the error's context, the value) remains.
Finish(r, res) ==
  [NoCall EXCEPT !.op = r.op, !.pc = "done", !.result = res,
                 !.errAttempts = r.errAttempts, !.errLast = r.errLast,
                 !.ret = r.ret]

\* The caller makes its calls one after the other, without necessarily
\* awaiting the previous one.
CanStart(c) ==
  /\ calls[c].op = "none"
  /\ \A b \in CallIds : b < c => calls[b].op # "none"

\* The frame of a start() or stop() call that has not been made yet.  While
\* the call is in flight the frame holds the local `channel` (chan), the
\* calls made on that channel so far (ops) and the argument of the pending
\* cancel call (tag); once settled it holds the result.
NoConsumerCall ==
  [op |-> "none", pc |-> "idle", chan |-> 0, ops |-> <<>>, tag |-> 0,
   result |-> "none"]

\* Nothing has been delivered to the callback yet.
NothingHandled ==
  [kind |-> "none", tag |-> 0, chan |-> 0, log |-> <<>>, channelCalls |-> <<>>,
   acked |-> FALSE, nacked |-> FALSE, raised |-> FALSE]

\* The MessageConsumer after its constructor, with dlq.enabled = dlq.
ConsumerNew(dlq) ==
  /\ isRunning = FALSE
  /\ consumerTag = 0
  /\ dlqEnabled = dlq
  /\ ccalls = [c \in CallIds |-> NoConsumerCall]
  /\ chansSeen = 0
  /\ nextTag = 0
  /\ subscriptions = {}
  /\ handled = NothingHandled

\* main() before createComponents and setupShutdownHandlers have run.
ServiceNew ==
  /\ mainPc = "new"
  /\ stopPc = "idle"
  /\ handlerIsShuttingDown = FALSE
  /\ signals = <<>>
  /\ serviceLog = <<>>
  /\ exitCodes = <<>>

Init ==
  /\ state = "disconnected"
  /\ connection = 0
  /\ channel = 0
  /\ stateCallbacks = <<>>
  /\ isShuttingDown = FALSE
  /\ reconnectAttempts \in 1..MaxAttempts
  /\ reconnectDelayMs = DEFAULT_RECONNECT_DELAY_MS
  /\ calls = [c \in CallIds |-> NoCall]
  /\ notified = <<>>
  /\ nextConn = 0
  /\ openConns = {}
  /\ connCloseFired = {}
  /\ nextChan = 0
  /\ chanParent = [h \in ChanIds |-> 0]
  /\ openChans = {}
  /\ chanCloseFired = {}
  /\ lastErrorLog = "none"
  /\ ConsumerNew(FALSE)
  /\ ServiceNew

\* ------------------------------------------------------- state notifier

\* The callbacks invoked last-registered first.
NotifyReversed(cbs, s) == [i \in 1..Len(cbs) |-> <<cbs[Len(cbs) + 1 - i], s>>]

\* The callbacks invoked with the value the state had before the change.
NotifyPrevious(cbs, s) == [i \in 1..Len(cbs) |-> <<cbs[i], state>>]

\* stateCallbacks.forEach((cb) => { cb(state); })
Notify(cbs, s) == [i \in 1..Len(cbs) |-> <<cbs[i], s>>]

\* setState without the test that suppresses a redundant transition.
setStateUnguarded(s) ==
  /\ state' = s
  /\ notified' = notified \o Notify(stateCallbacks, s)

setState(s) ==
  IF state # s
    THEN /\ state' = s
         /\ notified' = notified \o Notify(stateCallbacks, s)
    ELSE UNCHANGED <<state, notified>>

\* Observers are named by the order in which they register, and they
\* register while the service is set up, before the first call.
OnStateChange(o) ==
  /\ UNCHANGED <<consumerVars, serviceVars>>
  /\ o = Len(stateCallbacks) + 1
  /\ calls[1].op = "none"
  /\ stateCallbacks' = Append(stateCallbacks, o)
  /\ UNCHANGED <<state, connection, channel, isShuttingDown, config, calls,
                 notified, brokerConns, brokerChans>>
  /\ UNCHANGED lastErrorLog

\* ------------------------------------------------------- backoff policy

\* The backoff computed from the 1-based attempt number.
calculateBackoffOneBased(attempt) == reconnectDelayMs * 2 ^ (attempt + 1)

calculateBackoff(attempt) == reconnectDelayMs * 2 ^ attempt

\* The sleep test with an off-by-one bound: a sleep follows the final attempt.
ShouldSleepAfterLast(attempt) ==
  attempt < reconnectAttempts /\ ~isShuttingDown

\* The sleep test without its test of the shutdown flag.
ShouldSleepIgnoresShutdown(attempt) == attempt < reconnectAttempts - 1

\* if (attempt < this.reconnectAttempts - 1 && !this.isShuttingDown)
ShouldSleep(attempt) ==
  attempt < reconnectAttempts - 1 /\ ~isShuttingDown

\* ---------------------------------------------------------------- connect

\* The early return taken in the wrong state.
AlreadyConnecting == state = "connecting"

\* if (this._state === 'connected') return;
AlreadyConnected == state = "connected"

\* A retry loop that starts over when its attempts are used up, instead of
\* leaving the loop.
NextAttemptStartsOver(c, r) ==
  /\ UNCHANGED <<state, notified>>
  /\ calls' = [calls EXCEPT ![c] =
                 IF r.attempt + 1 < reconnectAttempts
                   THEN [r EXCEPT !.attempt = @ + 1, !.attempts = @ + 1,
                                  !.pc = "awaitConnect"]
                   ELSE [r EXCEPT !.attempt = 0, !.attempts = 1, !.sleeps = <<>>,
                                  !.pc = "awaitConnect"]]

\* The loop header after a failed attempt: attempt++ and the loop test,
\* then either the next amqplib.connect call or the exit of the loop.
NextAttempt(c, r) ==
  IF r.attempt + 1 < reconnectAttempts
    THEN /\ UNCHANGED <<state, notified>>
         /\ calls' = [calls EXCEPT ![c] =
                        [r EXCEPT !.attempt = @ + 1, !.attempts = @ + 1,
                                  !.pc = "awaitConnect"]]
    ELSE /\ setState("disconnected")
         /\ calls' = [calls EXCEPT ![c] =
                        Finish([r EXCEPT !.attempt = @ + 1,
                                         !.errAttempts = reconnectAttempts,
                                         !.errLast = r.lastError],
                               "CONNECTION_FAILED")]

ConnectCall(c) ==
  /\ UNCHANGED <<consumerVars, serviceVars>>
  /\ CanStart(c)
  /\ UNCHANGED <<connection, channel, stateCallbacks, isShuttingDown, config,
                 brokerConns, brokerChans>>
  /\ UNCHANGED lastErrorLog
  /\ IF AlreadyConnected
       THEN /\ UNCHANGED <<state, notified>>
            /\ calls' = [calls EXCEPT ![c] = Finish(Enter("connect"), "ok")]
       ELSE /\ setState("connecting")
            /\ calls' = [calls EXCEPT ![c] =
                           [Enter("connect") EXCEPT !.attempts = 1,
                                                    !.pc = "awaitConnect"]]

\* amqplib.connect resolved: the connection is stored, the handlers are
\* registered on it and the state becomes connected.
ConnectResolved(c) ==
  /\ UNCHANGED <<consumerVars, serviceVars>>
  /\ calls[c].pc = "awaitConnect"
  /\ nextConn' = nextConn + 1
  /\ openConns' = openConns \cup {nextConn + 1}
  /\ connection' = nextConn + 1
  /\ UNCHANGED <<channel, stateCallbacks, isShuttingDown, config,
                 connCloseFired, brokerChans>>
  /\ UNCHANGED lastErrorLog
  /\ setState("connected")
  /\ calls' = [calls EXCEPT ![c] =
                 Finish([calls[c] EXCEPT !.ret = nextConn + 1], "ok")]

\* amqplib.connect rejected: the catch block.  The error of the k-th
\* underlying call of a connect() carries the message k, so that the errors
\* of different attempts can be told apart.
ConnectRejected(c) ==
  /\ UNCHANGED <<consumerVars, serviceVars>>
  /\ calls[c].pc = "awaitConnect"
  /\ UNCHANGED <<connection, channel, stateCallbacks, isShuttingDown, config,
                 brokerConns, brokerChans>>
  /\ UNCHANGED lastErrorLog
  /\ LET r == [calls[c] EXCEPT !.lastError = calls[c].attempts]
     IN IF ShouldSleep(r.attempt)
          THEN /\ UNCHANGED <<state, notified>>
               /\ calls' = [calls EXCEPT ![c] =
                              [r EXCEPT !.pc = "sleeping",
                                        !.sleeps = Append(@, calculateBackoff(r.attempt))]]
          ELSE NextAttempt(c, r)

\* A backoff timer that disconnect() cancels: it never fires once the
\* shutdown flag is set.
SleepCancelledByShutdown(c) ==
  /\ UNCHANGED <<consumerVars, serviceVars>>
  /\ calls[c].pc = "sleeping"
  /\ ~isShuttingDown
  /\ UNCHANGED <<connection, channel, stateCallbacks, isShuttingDown, config,
                 brokerConns, brokerChans>>
  /\ UNCHANGED lastErrorLog
  /\ NextAttempt(c, calls[c])

\* The backoff timer fired.
SleepDone(c) ==
  /\ UNCHANGED <<consumerVars, serviceVars>>
  /\ calls[c].pc = "sleeping"
  /\ UNCHANGED <<connection, channel, stateCallbacks, isShuttingDown, config,
                 brokerConns, brokerChans>>
  /\ UNCHANGED lastErrorLog
  /\ NextAttempt(c, calls[c])

\* ------------------------------------------------------------- disconnect

\* disconnect() setting the state before it awaits connection.close().
CloseConnectionStateFirst(c, r) ==
  IF connection # 0
    THEN /\ setState("disconnected")
         /\ calls' = [calls EXCEPT ![c] =
                        [r EXCEPT !.pc = "awaitConnectionClose",
                                  !.target = connection]]
    ELSE /\ setState("disconnected")
         /\ calls' = [calls EXCEPT ![c] = Finish(r, "ok")]

\* if (this.connection) { await this.connection.close() ... } and the tail.
CloseConnectionOrFinish(c, r) ==
  IF connection # 0
    THEN /\ UNCHANGED <<state, notified>>
         /\ calls' = [calls EXCEPT ![c] =
                        [r EXCEPT !.pc = "awaitConnectionClose",
                                  !.target = connection]]
    ELSE /\ setState("disconnected")
         /\ calls' = [calls EXCEPT ![c] = Finish(r, "ok")]

DisconnectCall(c) ==
  /\ UNCHANGED <<consumerVars, serviceVars>>
  /\ CanStart(c)
  /\ isShuttingDown' = TRUE
  /\ UNCHANGED <<connection, channel, stateCallbacks, config,
                 brokerConns, brokerChans>>
  /\ UNCHANGED lastErrorLog
  /\ IF channel # 0
       THEN /\ UNCHANGED <<state, notified>>
            /\ calls' = [calls EXCEPT ![c] =
                           [Enter("disconnect") EXCEPT !.pc = "awaitChannelClose",
                                                       !.target = channel]]
       ELSE CloseConnectionOrFinish(c, Enter("disconnect"))

\* channel.close() settled (ok or not: the error is swallowed).
ChannelCloseSettled(c, ok) ==
  /\ UNCHANGED <<consumerVars, serviceVars>>
  /\ calls[c].pc = "awaitChannelClose"
  /\ openChans' = IF ok THEN openChans \ {calls[c].target} ELSE openChans
  /\ channel' = 0
  /\ UNCHANGED <<connection, stateCallbacks, isShuttingDown, config,
                 brokerConns, nextChan, chanParent, chanCloseFired>>
  /\ UNCHANGED lastErrorLog
  /\ CloseConnectionOrFinish(c, calls[c])

\* connection.close() settled (ok or not: the error is swallowed).
ConnectionCloseSettled(c, ok) ==
  /\ UNCHANGED <<consumerVars, serviceVars>>
  /\ calls[c].pc = "awaitConnectionClose"
  /\ openConns' = IF ok THEN openConns \ {calls[c].target} ELSE openConns
  /\ openChans' = IF ok
                    THEN {h \in openChans : chanParent[h] # calls[c].target}
                    ELSE openChans
  /\ connection' = 0
  /\ UNCHANGED <<channel, stateCallbacks, isShuttingDown, config,
                 nextConn, connCloseFired, nextChan, chanParent, chanCloseFired>>
  /\ UNCHANGED lastErrorLog
  /\ setState("disconnected")
  /\ calls' = [calls EXCEPT ![c] = Finish(calls[c], "ok")]

\* ------------------------------------------------------------- getChannel

\* The guard of getChannel without its test of the state.
NoConnectionOnly == connection = 0

\* if (this._state !== 'connected' || !this.connection) throw NOT_CONNECTED
NotConnected == state # "connected" \/ connection = 0

\* getChannel creating a channel on every call.
AlwaysNoChannel == TRUE

\* if (!this.channel)
NoChannel == channel = 0

GetChannelCall(c) ==
  /\ UNCHANGED <<consumerVars, serviceVars>>
  /\ CanStart(c)
  /\ UNCHANGED <<state, connection, channel, stateCallbacks, isShuttingDown,
                 config, notified, brokerConns, brokerChans>>
  /\ UNCHANGED lastErrorLog
  /\ IF NotConnected
       THEN calls' = [calls EXCEPT ![c] =
                        Finish(Enter("getChannel"), "NOT_CONNECTED")]
       ELSE IF NoChannel
         THEN calls' = [calls EXCEPT ![c] =
                          [Enter("getChannel") EXCEPT !.pc = "awaitCreateChannel",
                                                      !.creates = 1,
                                                      !.target = connection]]
         ELSE calls' = [calls EXCEPT ![c] =
                          Finish([Enter("getChannel") EXCEPT !.ret = channel], "ok")]

\* connection.createChannel() resolved: only a connection that is still
\* open at the broker hands out a channel.  The channel is stored and the
\* handlers are registered on it.
CreateChannelResolved(c) ==
  /\ UNCHANGED <<consumerVars, serviceVars>>
  /\ calls[c].pc = "awaitCreateChannel"
  /\ calls[c].target \in openConns
  /\ nextChan' = nextChan + 1
  /\ chanParent' = [chanParent EXCEPT ![nextChan + 1] = calls[c].target]
  /\ openChans' = openChans \cup {nextChan + 1}
  /\ channel' = nextChan + 1
  /\ UNCHANGED <<state, connection, stateCallbacks, isShuttingDown, config,
                 notified, brokerConns, chanCloseFired>>
  /\ UNCHANGED lastErrorLog
  /\ calls' = [calls EXCEPT ![c] =
                 Finish([calls[c] EXCEPT !.ret = nextChan + 1], "ok")]

\* A getChannel that treats a failed createChannel as the loss of the
\* connection.
CreateChannelRejectedDisconnects(c) ==
  /\ UNCHANGED <<consumerVars, serviceVars>>
  /\ calls[c].pc = "awaitCreateChannel"
  /\ connection' = 0
  /\ channel' = 0
  /\ setState("disconnected")
  /\ UNCHANGED <<stateCallbacks, isShuttingDown, config, brokerConns, brokerChans>>
  /\ UNCHANGED lastErrorLog
  /\ calls' = [calls EXCEPT ![c] = Finish(calls[c], "CREATE_FAILED")]

\* connection.createChannel() rejected: the error reaches the caller.
CreateChannelRejected(c) ==
  /\ UNCHANGED <<consumerVars, serviceVars>>
  /\ calls[c].pc = "awaitCreateChannel"
  /\ UNCHANGED <<state, connection, channel, stateCallbacks, isShuttingDown,
                 config, notified, brokerConns, brokerChans>>
  /\ UNCHANGED lastErrorLog
  /\ calls' = [calls EXCEPT ![c] = Finish(calls[c], "CREATE_FAILED")]

\* ----------------------------------------------------------- broker events

\* The 'close' handler of the connection leaving the channel handle alone.
ConnectionCloseEventKeepsChannel(k) ==
  /\ UNCHANGED <<consumerVars, serviceVars>>
  /\ k \in 1..nextConn
  /\ k \notin connCloseFired
  /\ connCloseFired' = connCloseFired \cup {k}
  /\ openConns' = openConns \ {k}
  /\ openChans' = {h \in openChans : chanParent[h] # k}
  /\ IF ~isShuttingDown
       THEN /\ connection' = 0
            /\ setState("disconnected")
       ELSE UNCHANGED <<connection, state, notified>>
  /\ UNCHANGED <<channel, stateCallbacks, isShuttingDown, config, calls,
                 nextConn, nextChan, chanParent, chanCloseFired, lastErrorLog>>

\* The 'close' handler of the connection starting a reconnection.
ConnectionCloseEventReconnects(k) ==
  /\ UNCHANGED <<consumerVars, serviceVars>>
  /\ k \in 1..nextConn
  /\ k \notin connCloseFired
  /\ connCloseFired' = connCloseFired \cup {k}
  /\ openConns' = openConns \ {k}
  /\ openChans' = {h \in openChans : chanParent[h] # k}
  /\ IF ~isShuttingDown
       THEN /\ channel' = 0
            /\ connection' = 0
            /\ setState("connecting")
       ELSE UNCHANGED <<channel, connection, state, notified>>
  /\ UNCHANGED <<stateCallbacks, isShuttingDown, config, calls,
                 nextConn, nextChan, chanParent, chanCloseFired, lastErrorLog>>

\* The 'close' handler of the connection without its test of the flag.
ConnectionCloseEventIgnoresFlag(k) ==
  /\ UNCHANGED <<consumerVars, serviceVars>>
  /\ k \in 1..nextConn
  /\ k \notin connCloseFired
  /\ connCloseFired' = connCloseFired \cup {k}
  /\ openConns' = openConns \ {k}
  /\ openChans' = {h \in openChans : chanParent[h] # k}
  /\ channel' = 0
  /\ connection' = 0
  /\ setState("disconnected")
  /\ UNCHANGED <<stateCallbacks, isShuttingDown, config, calls,
                 nextConn, nextChan, chanParent, chanCloseFired, lastErrorLog>>

\* The 'close' event of connection k (emitted once per connection, whether
\* the broker dropped it or the manager closed it) and its handler.
ConnectionCloseEvent(k) ==
  /\ UNCHANGED <<consumerVars, serviceVars>>
  /\ k \in 1..nextConn
  /\ k \notin connCloseFired
  /\ connCloseFired' = connCloseFired \cup {k}
  /\ openConns' = openConns \ {k}
  /\ openChans' = {h \in openChans : chanParent[h] # k}
  /\ IF ~isShuttingDown
       THEN /\ channel' = 0
            /\ connection' = 0
            /\ setState("disconnected")
       ELSE UNCHANGED <<channel, connection, state, notified>>
  /\ UNCHANGED <<stateCallbacks, isShuttingDown, config, calls,
                 nextConn, nextChan, chanParent, chanCloseFired>>
  /\ UNCHANGED lastErrorLog

\* The 'close' handler of the channel clearing the connection handle too.
ChannelCloseEventDropsConnection(h) ==
  /\ UNCHANGED <<consumerVars, serviceVars>>
  /\ h \in 1..nextChan
  /\ h \notin chanCloseFired
  /\ chanCloseFired' = chanCloseFired \cup {h}
  /\ openChans' = openChans \ {h}
  /\ channel' = IF ~isShuttingDown THEN 0 ELSE channel
  /\ connection' = IF ~isShuttingDown THEN 0 ELSE connection
  /\ UNCHANGED <<state, stateCallbacks, isShuttingDown, config,
                 calls, notified, brokerConns, nextChan, chanParent, lastErrorLog>>

\* The 'close' event of channel h and its handler.
ChannelCloseEvent(h) ==
  /\ UNCHANGED <<consumerVars, serviceVars>>
  /\ h \in 1..nextChan
  /\ h \notin chanCloseFired
  /\ chanCloseFired' = chanCloseFired \cup {h}
  /\ openChans' = openChans \ {h}
  /\ channel' = IF ~isShuttingDown THEN 0 ELSE channel
  /\ UNCHANGED <<state, connection, stateCallbacks, isShuttingDown, config,
                 calls, notified, brokerConns, nextChan, chanParent>>
  /\ UNCHANGED lastErrorLog

\* An 'error' handler of the connection that treats the error as a close.
ConnectionErrorEventDisconnects(k) ==
  /\ UNCHANGED <<consumerVars, serviceVars>>
  /\ k \in 1..nextConn
  /\ k \notin connCloseFired
  /\ lastErrorLog' = "Connection error"
  /\ channel' = 0
  /\ connection' = 0
  /\ setState("disconnected")
  /\ UNCHANGED <<stateCallbacks, isShuttingDown, config, calls,
                 brokerConns, brokerChans>>

\* this.connection.on('error', ...): the handler logs the error.
ConnectionErrorEvent(k) ==
  /\ UNCHANGED <<consumerVars, serviceVars>>
  /\ k \in 1..nextConn
  /\ k \notin connCloseFired
  /\ lastErrorLog' = "Connection error"
  /\ UNCHANGED <<state, connection, channel, stateCallbacks, isShuttingDown,
                 config, calls, notified, brokerConns, brokerChans>>

\* this.channel.on('error', ...): the handler logs the error.
ChannelErrorEvent(h) ==
  /\ UNCHANGED <<consumerVars, serviceVars>>
  /\ h \in 1..nextChan
  /\ h \notin chanCloseFired
  /\ lastErrorLog' = "Channel error"
  /\ UNCHANGED <<state, connection, channel, stateCallbacks, isShuttingDown,
                 config, calls, notified, brokerConns, brokerChans>>

\* ------------------------------------------------------- message consumer
\* The MessageConsumer against the IConnectionManager interface: a
\* getChannel() call resolves with a channel or rejects, and every call on a
\* channel resolves or rejects.

\* The caller makes its start() and stop() calls one after the other,
\* without necessarily awaiting the previous one.
CanStartConsumerCall(c) ==
  /\ ccalls[c].op = "none"
  /\ \A b \in CallIds : b < c => ccalls[b].op # "none"

\* The frame of a call whose promise settles with res in this step.
Settle(r, res) ==
  [NoConsumerCall EXCEPT !.op = r.op, !.pc = "done", !.result = res]

\* The frame of a call that makes the call `call` on its channel and waits
\* at pc for it.
Issue(r, call, pc) == [r EXCEPT !.ops = Append(@, call), !.pc = pc]

\* The channels a getChannel() call may resolve with: one seen before, or
\* one more.
ChannelsOffered ==
  1..(IF chansSeen < MaxChannels THEN chansSeen + 1 ELSE MaxChannels)

\* The consumer does nothing in this step.
ConsumerFieldsUnchanged == UNCHANGED <<isRunning, consumerTag, dlqEnabled>>
ConsumerBrokerUnchanged == UNCHANGED <<nextTag, subscriptions, handled>>

\* A start() without the isRunning test: it never returns early.
AlreadyRunningUnchecked == FALSE

\* if (this.isRunning) return;
AlreadyRunning == isRunning

StartCall(c) ==
  /\ CanStartConsumerCall(c)
  /\ UNCHANGED <<managerVars, serviceVars>>
  /\ ConsumerFieldsUnchanged /\ ConsumerBrokerUnchanged
  /\ UNCHANGED chansSeen
  /\ IF AlreadyRunning
       THEN ccalls' = [ccalls EXCEPT ![c] =
                         Settle([NoConsumerCall EXCEPT !.op = "start"], "ok")]
       ELSE ccalls' = [ccalls EXCEPT ![c] =
                         [NoConsumerCall EXCEPT !.op = "start",
                                                !.pc = "awaitGetChannel"]]

\* getChannel() resolved with channel g: await channel.prefetch(...)
StartGotChannel(c, g) ==
  /\ ccalls[c].op = "start"
  /\ ccalls[c].pc = "awaitGetChannel"
  /\ g \in ChannelsOffered
  /\ chansSeen' = IF g > chansSeen THEN g ELSE chansSeen
  /\ UNCHANGED <<managerVars, serviceVars>>
  /\ ConsumerFieldsUnchanged /\ ConsumerBrokerUnchanged
  /\ ccalls' = [ccalls EXCEPT ![c] =
                  Issue([ccalls[c] EXCEPT !.chan = g], "prefetch", "awaitPrefetch")]

\* The declaration of the main queue without the dead-letter arguments,
\* whatever dlq.enabled is.
MainQueuePlain == "assertQueue(main)"

\* queueOptions: durable, and the dead-letter arguments if dlq.enabled.
MainQueueDeclaration ==
  IF dlqEnabled THEN "assertQueue(main, dead-letter arguments)"
                ELSE "assertQueue(main)"

\* A start() that subscribes before it declares the dead-letter queue.
PrefetchResolvedSkipsDLQ(c) ==
  /\ ccalls[c].op = "start"
  /\ ccalls[c].pc = "awaitPrefetch"
  /\ UNCHANGED <<managerVars, serviceVars, chansSeen>>
  /\ ConsumerFieldsUnchanged /\ ConsumerBrokerUnchanged
  /\ ccalls' = [ccalls EXCEPT ![c] =
                  Issue(ccalls[c], MainQueueDeclaration, "awaitAssertQueue")]

\* prefetch resolved: setupDLQ if dlq.enabled, else the main queue.
PrefetchResolved(c) ==
  /\ ccalls[c].op = "start"
  /\ ccalls[c].pc = "awaitPrefetch"
  /\ UNCHANGED <<managerVars, serviceVars, chansSeen>>
  /\ ConsumerFieldsUnchanged /\ ConsumerBrokerUnchanged
  /\ ccalls' = [ccalls EXCEPT ![c] =
                  IF dlqEnabled
                    THEN Issue(ccalls[c], "assertExchange(dlx)", "awaitAssertExchange")
                    ELSE Issue(ccalls[c], MainQueueDeclaration, "awaitAssertQueue")]

\* setupDLQ: assertExchange resolved, assertQueue(<queueName>.dlq) follows.
AssertExchangeResolved(c) ==
  /\ ccalls[c].pc = "awaitAssertExchange"
  /\ UNCHANGED <<managerVars, serviceVars, chansSeen>>
  /\ ConsumerFieldsUnchanged /\ ConsumerBrokerUnchanged
  /\ ccalls' = [ccalls EXCEPT ![c] =
                  Issue(ccalls[c], "assertQueue(main.dlq)", "awaitAssertDlq")]

\* setupDLQ: assertQueue resolved, bindQueue follows.
AssertDlqResolved(c) ==
  /\ ccalls[c].pc = "awaitAssertDlq"
  /\ UNCHANGED <<managerVars, serviceVars, chansSeen>>
  /\ ConsumerFieldsUnchanged /\ ConsumerBrokerUnchanged
  /\ ccalls' = [ccalls EXCEPT ![c] =
                  Issue(ccalls[c], "bindQueue(main.dlq, dlx)", "awaitBindQueue")]

\* setupDLQ returned: the main queue is declared.
BindQueueResolved(c) ==
  /\ ccalls[c].pc = "awaitBindQueue"
  /\ UNCHANGED <<managerVars, serviceVars, chansSeen>>
  /\ ConsumerFieldsUnchanged /\ ConsumerBrokerUnchanged
  /\ ccalls' = [ccalls EXCEPT ![c] =
                  Issue(ccalls[c], MainQueueDeclaration, "awaitAssertQueue")]

\* assertQueue of the main queue resolved: channel.consume(...)
AssertQueueResolved(c) ==
  /\ ccalls[c].pc = "awaitAssertQueue"
  /\ UNCHANGED <<managerVars, serviceVars, chansSeen>>
  /\ ConsumerFieldsUnchanged /\ ConsumerBrokerUnchanged
  /\ ccalls' = [ccalls EXCEPT ![c] =
                  Issue(ccalls[c], "consume(main)", "awaitConsume")]

\* consume resolved with a new consumer tag: the broker holds the
\* subscription, the tag is stored and the consumer is running.
ConsumeResolved(c) ==
  /\ ccalls[c].pc = "awaitConsume"
  /\ nextTag' = nextTag + 1
  /\ subscriptions' = subscriptions \cup
                        {[tag |-> nextTag + 1, chan |-> ccalls[c].chan]}
  /\ consumerTag' = nextTag + 1
  /\ isRunning' = TRUE
  /\ UNCHANGED <<managerVars, serviceVars, chansSeen, dlqEnabled, handled>>
  /\ ccalls' = [ccalls EXCEPT ![c] = Settle(ccalls[c], "ok")]

\* getChannel() or a call on the channel rejected: start() has no catch,
\* the error reaches the caller.
StartRejected(c) ==
  /\ ccalls[c].op = "start"
  /\ ccalls[c].pc \notin {"idle", "done"}
  /\ UNCHANGED <<managerVars, serviceVars, chansSeen>>
  /\ ConsumerFieldsUnchanged /\ ConsumerBrokerUnchanged
  /\ ccalls' = [ccalls EXCEPT ![c] = Settle(ccalls[c], "error")]


\* if (!this.isRunning || !this.consumerTag) return;
NotRunning == ~isRunning \/ consumerTag = 0

StopCall(c) ==
  /\ CanStartConsumerCall(c)
  /\ UNCHANGED <<managerVars, serviceVars, chansSeen>>
  /\ ConsumerFieldsUnchanged /\ ConsumerBrokerUnchanged
  /\ IF NotRunning
       THEN ccalls' = [ccalls EXCEPT ![c] =
                         Settle([NoConsumerCall EXCEPT !.op = "stop"], "ok")]
       ELSE ccalls' = [ccalls EXCEPT ![c] =
                         [NoConsumerCall EXCEPT !.op = "stop",
                                                !.pc = "awaitGetChannel"]]

\* getChannel() resolved with channel g: await channel.cancel(this.consumerTag)
StopGotChannel(c, g) ==
  /\ ccalls[c].op = "stop"
  /\ ccalls[c].pc = "awaitGetChannel"
  /\ g \in ChannelsOffered
  /\ chansSeen' = IF g > chansSeen THEN g ELSE chansSeen
  /\ UNCHANGED <<managerVars, serviceVars>>
  /\ ConsumerFieldsUnchanged /\ ConsumerBrokerUnchanged
  /\ ccalls' = [ccalls EXCEPT ![c] =
                  Issue([ccalls[c] EXCEPT !.chan = g, !.tag = consumerTag],
                        "cancel", "awaitCancel")]

\* A stop() without its try/catch: the error of getChannel() reaches the
\* caller and the fields stay as they are.
StopGetChannelRejectedThrows(c) ==
  /\ ccalls[c].op = "stop"
  /\ ccalls[c].pc = "awaitGetChannel"
  /\ UNCHANGED <<managerVars, serviceVars, chansSeen>>
  /\ ConsumerFieldsUnchanged /\ ConsumerBrokerUnchanged
  /\ ccalls' = [ccalls EXCEPT ![c] = Settle(ccalls[c], "error")]

\* getChannel() rejected: the catch block swallows the error, the tail of
\* stop() runs.
StopGetChannelRejected(c) ==
  /\ ccalls[c].op = "stop"
  /\ ccalls[c].pc = "awaitGetChannel"
  /\ consumerTag' = 0
  /\ isRunning' = FALSE
  /\ UNCHANGED <<managerVars, serviceVars, chansSeen, dlqEnabled>>
  /\ ConsumerBrokerUnchanged
  /\ ccalls' = [ccalls EXCEPT ![c] = Settle(ccalls[c], "ok")]

\* channel.cancel settled (ok or not: the error is swallowed).  A cancel
\* that succeeds removes the subscription with that tag on that channel.
CancelSettled(c, ok) ==
  /\ ccalls[c].pc = "awaitCancel"
  /\ subscriptions' =
       IF ok THEN subscriptions \ {[tag |-> ccalls[c].tag, chan |-> ccalls[c].chan]}
             ELSE subscriptions
  /\ consumerTag' = 0
  /\ isRunning' = FALSE
  /\ UNCHANGED <<managerVars, serviceVars, chansSeen, dlqEnabled, nextTag, handled>>
  /\ ccalls' = [ccalls EXCEPT ![c] = Settle(ccalls[c], "ok")]

\* ------------------------------------------------------ delivery callback

\* The kinds of delivery: the null message of a server-side cancel, a
\* message whose content is JSON, a message whose content is not.
Deliveries == {"null", "json", "raw"}

\* channel.ack(msg) and channel.nack(msg, false, false) as calls.
AckCall == [op |-> "ack", allUpTo |-> FALSE, requeue |-> FALSE]
NackRequeues == [op |-> "nack", allUpTo |-> FALSE, requeue |-> TRUE]
NackCall == [op |-> "nack", allUpTo |-> FALSE, requeue |-> FALSE]

\* logMessage: parseMessage decides between the info and the warn line.
logMessage(msg) ==
  IF msg = "json" THEN "info: Message received"
                  ELSE "warn: Failed to parse message as JSON, logging raw content"

\* A handleProcessingError whose nack is outside any try/catch.
handleProcessingErrorThrows(h, nackThrows) ==
  [h EXCEPT !.log = Append(@, "error: Error processing message"),
            !.channelCalls = Append(@, NackCall),
            !.nacked = ~nackThrows,
            !.raised = nackThrows]

\* handleProcessingError(channel, msg, error) after the part h of
\* handleMessage: logs, nacks without requeue, logs if the nack throws.
handleProcessingError(h, nackThrows) ==
  LET g == [h EXCEPT !.log = Append(@, "error: Error processing message"),
                     !.channelCalls = Append(@, NackCall)]
  IN IF nackThrows
       THEN [g EXCEPT !.log = Append(@, "error: Failed to nack message")]
       ELSE [g EXCEPT !.nacked = TRUE]

\* handleMessage(channel, msg): what the callback does with one delivery
\* on channel chan, when processing (transform, logMessage), ack and nack
\* throw as given.
handleMessage(chan, msg, processThrows, ackThrows, nackThrows) ==
  LET h == [NothingHandled EXCEPT !.kind = msg, !.chan = chan]
  IN IF msg = "null"
       THEN [h EXCEPT !.log =
               <<"warn: Received null message (consumer cancelled by server)">>]
       ELSE IF processThrows
         THEN handleProcessingError(h, nackThrows)
         ELSE LET l == [h EXCEPT !.log = <<logMessage(msg)>>,
                                 !.channelCalls = <<AckCall>>]
              IN IF ackThrows
                   THEN handleProcessingError(l, nackThrows)
                   ELSE [l EXCEPT !.acked = TRUE]

\* A callback that acks on the channel the manager handed out last instead
\* of the channel of its subscription.
MessageDeliveredOnLatestChannel(sub, msg, processThrows, ackThrows, nackThrows) ==
  /\ sub \in subscriptions
  /\ msg \in Deliveries \ {"null"}
  /\ processThrows => ~ackThrows
  /\ (~processThrows /\ ~ackThrows) => ~nackThrows
  /\ handled' = [handleMessage(chansSeen, msg, processThrows, ackThrows, nackThrows)
                   EXCEPT !.tag = sub.tag]
  /\ UNCHANGED <<managerVars, serviceVars, chansSeen, ccalls, nextTag, subscriptions>>
  /\ ConsumerFieldsUnchanged

\* The broker delivers a message of subscription sub to its callback.  A
\* call the callback does not reach has no outcome: ack is not reached when
\* processing throws, nack is not reached when ack returns.
MessageDelivered(sub, msg, processThrows, ackThrows, nackThrows) ==
  /\ sub \in subscriptions
  /\ msg \in Deliveries \ {"null"}
  /\ processThrows => ~ackThrows
  /\ (~processThrows /\ ~ackThrows) => ~nackThrows
  /\ handled' = [handleMessage(sub.chan, msg, processThrows, ackThrows, nackThrows)
                   EXCEPT !.tag = sub.tag]
  /\ UNCHANGED <<managerVars, serviceVars, chansSeen, ccalls, nextTag, subscriptions>>
  /\ ConsumerFieldsUnchanged

\* The broker cancels subscription sub and tells its callback with a null
\* message.
ConsumerCancelledByServer(sub) ==
  /\ sub \in subscriptions
  /\ subscriptions' = subscriptions \ {sub}
  /\ handled' = [handleMessage(sub.chan, "null", FALSE, FALSE, FALSE)
                   EXCEPT !.tag = sub.tag]
  /\ UNCHANGED <<managerVars, serviceVars, chansSeen, ccalls, nextTag>>
  /\ ConsumerFieldsUnchanged

\* A consumer that watches its channel and marks itself stopped when the
\* channel is lost.
ChannelLostStopsConsumer(g) ==
  /\ \E s \in subscriptions : s.chan = g
  /\ subscriptions' = {s \in subscriptions : s.chan # g}
  /\ isRunning' = FALSE
  /\ consumerTag' = 0
  /\ UNCHANGED <<managerVars, serviceVars, chansSeen, ccalls, nextTag, handled,
                 dlqEnabled>>

\* Channel g, or the connection under it, is lost: the broker drops the
\* subscriptions made on it.  The consumer registers no handler on the
\* channel and no callback with the manager, so none of its code runs.
ChannelLost(g) ==
  /\ \E s \in subscriptions : s.chan = g
  /\ subscriptions' = {s \in subscriptions : s.chan # g}
  /\ UNCHANGED <<managerVars, serviceVars, chansSeen, ccalls, nextTag, handled>>
  /\ ConsumerFieldsUnchanged

Subscriptions == [tag : 1..MaxCalls, chan : 1..MaxChannels]

ConsumerNext ==
  \/ \E c \in CallIds : StartCall(c)
  \/ \E c \in CallIds, g \in 1..MaxChannels : StartGotChannel(c, g)
  \/ \E c \in CallIds : PrefetchResolved(c)
  \/ \E c \in CallIds : AssertExchangeResolved(c)
  \/ \E c \in CallIds : AssertDlqResolved(c)
  \/ \E c \in CallIds : BindQueueResolved(c)
  \/ \E c \in CallIds : AssertQueueResolved(c)
  \/ \E c \in CallIds : ConsumeResolved(c)
  \/ \E c \in CallIds : StartRejected(c)
  \/ \E c \in CallIds : StopCall(c)
  \/ \E c \in CallIds, g \in 1..MaxChannels : StopGotChannel(c, g)
  \/ \E c \in CallIds : StopGetChannelRejected(c)
  \/ \E c \in CallIds, ok \in BOOLEAN : CancelSettled(c, ok)
  \/ \E sub \in Subscriptions, msg \in Deliveries, p, a, n \in BOOLEAN :
       MessageDelivered(sub, msg, p, a, n)
  \/ \E sub \in Subscriptions : ConsumerCancelledByServer(sub)
  \/ \E g \in 1..MaxChannels : ChannelLost(g)

\* The ConnectionManager after its constructor, as the consumer is given it.
ManagerNew ==
  /\ state = "disconnected"
  /\ connection = 0
  /\ channel = 0
  /\ stateCallbacks = <<>>
  /\ isShuttingDown = FALSE
  /\ reconnectAttempts = MaxAttempts
  /\ reconnectDelayMs = DEFAULT_RECONNECT_DELAY_MS
  /\ calls = [c \in CallIds |-> NoCall]
  /\ notified = <<>>
  /\ nextConn = 0
  /\ openConns = {}
  /\ connCloseFired = {}
  /\ nextChan = 0
  /\ chanParent = [h \in ChanIds |-> 0]
  /\ openChans = {}
  /\ chanCloseFired = {}
  /\ lastErrorLog = "none"

ConsumerInit ==
  /\ ManagerNew
  /\ \E dlq \in BOOLEAN : ConsumerNew(dlq)
  /\ ServiceNew

\* ---------------------------------------------------------------- service
\* index.ts: main, startService, stopService and the shutdown handler,
\* against the IConnectionManager and IMessageConsumer interfaces: each
\* call on a component is a promise that resolves or rejects.  process.exit
\* ends the process: nothing runs after it.

Signals == {"SIGTERM", "SIGINT"}

Exited == exitCodes # <<>>

\* main(): createComponents, setupShutdownHandlers, then startService up to
\* its first await, connectionManager.connect().
Main ==
  /\ mainPc = "new"
  /\ mainPc' = "awaitConnect"
  /\ serviceLog' = serviceLog \o <<"startService()", "connect()">>
  /\ UNCHANGED <<managerVars, consumerVars, stopPc, handlerIsShuttingDown,
                 signals, exitCodes>>

\* connect() resolved: await consumer.start()
StartServiceConnected ==
  /\ ~Exited
  /\ mainPc = "awaitConnect"
  /\ mainPc' = "awaitStart"
  /\ serviceLog' = serviceLog \o <<"connect() resolved", "consumer.start()">>
  /\ UNCHANGED <<managerVars, consumerVars, stopPc, handlerIsShuttingDown,
                 signals, exitCodes>>

\* A startService that goes on to start the consumer when connect()
\* rejected.
StartServiceConnectFailedIgnored ==
  /\ ~Exited
  /\ mainPc = "awaitConnect"
  /\ mainPc' = "awaitStart"
  /\ serviceLog' = serviceLog \o <<"connect() rejected", "consumer.start()">>
  /\ UNCHANGED <<managerVars, consumerVars, stopPc, handlerIsShuttingDown,
                 signals, exitCodes>>

\* connect() rejected: startService rejects, the catch of main logs and
\* calls process.exit(1).
StartServiceConnectFailed ==
  /\ ~Exited
  /\ mainPc = "awaitConnect"
  /\ mainPc' = "failed"
  /\ serviceLog' = serviceLog \o <<"connect() rejected", "startService rejected">>
  /\ exitCodes' = Append(exitCodes, 1)
  /\ UNCHANGED <<managerVars, consumerVars, stopPc, handlerIsShuttingDown,
                 signals>>

\* consumer.start() resolved: startService and main return.
StartServiceStarted ==
  /\ ~Exited
  /\ mainPc = "awaitStart"
  /\ mainPc' = "started"
  /\ serviceLog' = serviceLog \o <<"consumer.start() resolved", "startService resolved">>
  /\ UNCHANGED <<managerVars, consumerVars, stopPc, handlerIsShuttingDown,
                 signals, exitCodes>>

\* consumer.start() rejected: as for connect().
StartServiceStartFailed ==
  /\ ~Exited
  /\ mainPc = "awaitStart"
  /\ mainPc' = "failed"
  /\ serviceLog' = serviceLog \o <<"consumer.start() rejected", "startService rejected">>
  /\ exitCodes' = Append(exitCodes, 1)
  /\ UNCHANGED <<managerVars, consumerVars, stopPc, handlerIsShuttingDown,
                 signals>>

\* A shutdown handler without its isShuttingDown test: every signal runs
\* stopService.
ShutdownUnguarded(signal) ==
  /\ ~Exited
  /\ mainPc # "new"
  /\ Len(signals) < MaxSignals
  /\ signals' = Append(signals, signal)
  /\ handlerIsShuttingDown' = TRUE
  /\ stopPc' = "awaitStop"
  /\ serviceLog' = serviceLog \o <<"stopService()", "consumer.stop()">>
  /\ UNCHANGED <<managerVars, consumerVars, mainPc, exitCodes>>

\* The process receives SIGTERM or SIGINT: shutdown(signal) returns if the
\* flag is set, else sets it and runs stopService up to its first await,
\* consumer.stop().
Shutdown(signal) ==
  /\ ~Exited
  /\ mainPc # "new"
  /\ Len(signals) < MaxSignals
  /\ signals' = Append(signals, signal)
  /\ IF handlerIsShuttingDown
       THEN UNCHANGED <<handlerIsShuttingDown, stopPc, serviceLog>>
       ELSE /\ handlerIsShuttingDown' = TRUE
            /\ stopPc' = "awaitStop"
            /\ serviceLog' = serviceLog \o <<"stopService()", "consumer.stop()">>
  /\ UNCHANGED <<managerVars, consumerVars, mainPc, exitCodes>>

\* A stopService that calls disconnect() and returns without waiting for
\* consumer.stop().
StopServiceStoppedNotAwaited ==
  /\ ~Exited
  /\ stopPc = "awaitStop"
  /\ stopPc' = "awaitDisconnect"
  /\ serviceLog' = Append(serviceLog, "disconnect()")
  /\ UNCHANGED <<managerVars, consumerVars, mainPc, handlerIsShuttingDown,
                 signals, exitCodes>>

\* consumer.stop() resolved: await connectionManager.disconnect()
StopServiceStopped ==
  /\ ~Exited
  /\ stopPc = "awaitStop"
  /\ stopPc' = "awaitDisconnect"
  /\ serviceLog' = serviceLog \o <<"consumer.stop() resolved", "disconnect()">>
  /\ UNCHANGED <<managerVars, consumerVars, mainPc, handlerIsShuttingDown,
                 signals, exitCodes>>

\* A shutdown handler that exits with code 0 when stopService rejected.
StopServiceStopFailedExitsZero ==
  /\ ~Exited
  /\ stopPc = "awaitStop"
  /\ stopPc' = "failed"
  /\ serviceLog' = serviceLog \o <<"consumer.stop() rejected", "stopService rejected">>
  /\ exitCodes' = Append(exitCodes, 0)
  /\ UNCHANGED <<managerVars, consumerVars, mainPc, handlerIsShuttingDown,
                 signals>>

\* consumer.stop() rejected: stopService rejects, the catch of shutdown
\* logs and calls process.exit(1).
StopServiceStopFailed ==
  /\ ~Exited
  /\ stopPc = "awaitStop"
  /\ stopPc' = "failed"
  /\ serviceLog' = serviceLog \o <<"consumer.stop() rejected", "stopService rejected">>
  /\ exitCodes' = Append(exitCodes, 1)
  /\ UNCHANGED <<managerVars, consumerVars, mainPc, handlerIsShuttingDown,
                 signals>>

\* disconnect() resolved: stopService returns, shutdown calls
\* process.exit(0).
StopServiceDisconnected ==
  /\ ~Exited
  /\ stopPc = "awaitDisconnect"
  /\ stopPc' = "stopped"
  /\ serviceLog' = serviceLog \o <<"disconnect() resolved", "stopService resolved">>
  /\ exitCodes' = Append(exitCodes, 0)
  /\ UNCHANGED <<managerVars, consumerVars, mainPc, handlerIsShuttingDown,
                 signals>>

\* disconnect() rejected: as for consumer.stop().
StopServiceDisconnectFailed ==
  /\ ~Exited
  /\ stopPc = "awaitDisconnect"
  /\ stopPc' = "failed"
  /\ serviceLog' = serviceLog \o <<"disconnect() rejected", "stopService rejected">>
  /\ exitCodes' = Append(exitCodes, 1)
  /\ UNCHANGED <<managerVars, consumerVars, mainPc, handlerIsShuttingDown,
                 signals>>

ServiceNext ==
  \/ Main
  \/ StartServiceConnected
  \/ StartServiceConnectFailed
  \/ StartServiceStarted
  \/ StartServiceStartFailed
  \/ \E signal \in Signals : Shutdown(signal)
  \/ StopServiceStopped
  \/ StopServiceStopFailed
  \/ StopServiceDisconnected
  \/ StopServiceDisconnectFailed

\* The components createComponents builds, before main() goes on.
ServiceInit ==
  /\ ManagerNew
  /\ \E dlq \in BOOLEAN : ConsumerNew(dlq)
  /\ ServiceNew

\* ---------------------------------------------------------- specification

Next ==
  \/ \E o \in Observers : OnStateChange(o)
  \/ \E c \in CallIds : ConnectCall(c)
  \/ \E c \in CallIds : ConnectResolved(c)
  \/ \E c \in CallIds : ConnectRejected(c)
  \/ \E c \in CallIds : SleepDone(c)
  \/ \E c \in CallIds : DisconnectCall(c)
  \/ \E c \in CallIds, ok \in BOOLEAN : ChannelCloseSettled(c, ok)
  \/ \E c \in CallIds, ok \in BOOLEAN : ConnectionCloseSettled(c, ok)
  \/ \E c \in CallIds : GetChannelCall(c)
  \/ \E c \in CallIds : CreateChannelResolved(c)
  \/ \E c \in CallIds : CreateChannelRejected(c)
  \/ \E k \in ConnIds : ConnectionCloseEvent(k)
  \/ \E h \in ChanIds : ChannelCloseEvent(h)
  \/ \E k \in ConnIds : ConnectionErrorEvent(k)
  \/ \E h \in ChanIds : ChannelErrorEvent(h)

Spec == Init /\ [][Next]_vars

\* The promise of amqplib.connect settles, one way or the other, and the
\* timer of a backoff sleep fires: a connect() call suspended in either is
\* resumed by the event loop.
LiveSpec ==
  /\ Spec
  /\ \A c \in CallIds : WF_vars(ConnectResolved(c) \/ ConnectRejected(c))
  /\ \A c \in CallIds : WF_vars(SleepDone(c))

\* The MessageConsumer and its callers, the broker and the manager behind
\* getChannel() being its environment.
ConsumerSpec == ConsumerInit /\ [][ConsumerNext]_vars

\* main(), startService, stopService and the shutdown handler, the
\* components behind their interfaces being the environment.
ServiceSpec == ServiceInit /\ [][ServiceNext]_vars

\* ------------------------------------------------------- property vocabulary

\* The promise of call c settles in this step.
Settles(c) == calls[c].pc # "done" /\ calls'[c].pc = "done"

\* The caller invokes method op as call c in this step.
Starts(c, op) == calls[c].op = "none" /\ calls'[c].op = op

\* A connect() call fails in this step, all its attempts used up.
ConnectFails(c) ==
  Settles(c) /\ calls'[c].op = "connect" /\ calls'[c].result = "CONNECTION_FAILED"

\* A connect() call returns in this step after an attempt that succeeded.
ConnectSucceeds(c) ==
  Settles(c) /\ calls[c].pc = "awaitConnect" /\ calls'[c].result = "ok"

\* reconnectDelayMs*2^0, ..., reconnectDelayMs*2^(m-1)
Backoffs(m) == [i \in 1..m |-> reconnectDelayMs * 2 ^ (i - 1)]

\* The state values delivered to observer o by the callback invocations
\* from + 1 .. Len(log) of log.
Seen(log, o, from) ==
  LET part == SubSeq(log, from + 1, Len(log))
      mine == SelectSeq(part, LAMBDA e : e[1] = o)
  IN [i \in 1..Len(mine) |-> mine[i][2]]

Registered == {stateCallbacks[i] : i \in 1..Len(stateCallbacks)}

managerFields == <<state, connection, channel, isShuttingDown, stateCallbacks>>
broker == <<nextConn, openConns, connCloseFired,
            nextChan, chanParent, openChans, chanCloseFired>>

\* ------------------------------------------------------------------ C1

\* C1 (as stated): a connect() call whose attempts all fail has made
\* exactly reconnectAttempts underlying connect calls and has slept exactly
\* reconnectDelayMs*2^0, ..., reconnectDelayMs*2^(n-2) when it fails,
\* whatever the shutdown flag is.
C1_AllFailSleepsEveryGap ==
  [][\A c \in CallIds : ConnectFails(c) =>
       /\ calls[c].attempts = reconnectAttempts
       /\ calls[c].sleeps = Backoffs(reconnectAttempts - 1)]_vars

\* C1 (amended): a connect() call whose attempts all fail has made exactly
\* reconnectAttempts underlying connect calls when it fails; it has slept
\* the full sequence reconnectDelayMs*2^0, ..., reconnectDelayMs*2^(n-2)
\* when the shutdown flag is not set during the call, and otherwise a
\* prefix of it (no sleep follows an attempt that fails while the flag is
\* set); it fails out of no sleep.
C1_AllFailBackoff ==
  [][\A c \in CallIds : ConnectFails(c) =>
       /\ calls[c].pc = "awaitConnect"
       /\ calls[c].attempts = reconnectAttempts
       /\ \E j \in 0..(reconnectAttempts - 1) : calls[c].sleeps = Backoffs(j)
       /\ ~isShuttingDown' => calls[c].sleeps = Backoffs(reconnectAttempts - 1)]_vars

C1_Witness ==
  \E c \in CallIds :
    /\ calls[c].op = "connect"
    /\ calls[c].result = "CONNECTION_FAILED"
    /\ calls[c].errAttempts >= 3
    /\ ~isShuttingDown

\* ------------------------------------------------------------------ C2

\* C2: a connect() call that has used up its attempts fails with
\* CONNECTION_FAILED carrying the configured attempt count and the message
\* of the error of the last attempt; at that moment the state is
\* disconnected and no connection handle is held; and a call that has
\* settled does nothing more.
C2_ExhaustedLeavesNoConnection ==
  [][/\ \A c \in CallIds : ConnectFails(c) =>
          /\ calls[c].attempts = reconnectAttempts
          /\ calls'[c].errAttempts = reconnectAttempts
          /\ calls'[c].errLast = reconnectAttempts
          /\ state' = "disconnected"
          /\ connection' = 0
     /\ \A c \in CallIds : calls[c].pc = "done" => calls'[c] = calls[c]]_vars

\* ------------------------------------------------------------------ C3

\* C3 (as stated): a connect() call whose k-th attempt is the first to
\* succeed has made exactly k underlying calls and slept
\* reconnectDelayMs*2^0, ..., reconnectDelayMs*2^(k-2) between them; it
\* holds the new connection and ends in state connected without error.
C3_SuccessSleepsEveryGap ==
  [][\A c \in CallIds : ConnectSucceeds(c) =>
       /\ calls[c].lastError = calls[c].attempts - 1
       /\ calls[c].sleeps = Backoffs(calls[c].attempts - 1)
       /\ calls'[c].ret \in openConns' \ openConns
       /\ connection' = calls'[c].ret
       /\ state' = "connected"]_vars

\* C3 (amended): as stated, except that the sleeps are the full sequence
\* only when the shutdown flag is not set during the call, and a prefix of
\* it otherwise.
C3_SuccessBackoff ==
  [][\A c \in CallIds : ConnectSucceeds(c) =>
       /\ calls[c].attempts \in 1..reconnectAttempts
       /\ calls[c].lastError = calls[c].attempts - 1
       /\ \E j \in 0..(calls[c].attempts - 1) : calls[c].sleeps = Backoffs(j)
       /\ ~isShuttingDown' => calls[c].sleeps = Backoffs(calls[c].attempts - 1)
       /\ calls'[c].ret \in openConns' \ openConns
       /\ connection' = calls'[c].ret
       /\ state' = "connected"]_vars

C3_Witness ==
  \E c \in CallIds :
    /\ calls[c].pc = "awaitConnect"
    /\ calls[c].attempts = 3
    /\ Len(calls[c].sleeps) = 2
    /\ ~isShuttingDown
    /\ ENABLED ConnectResolved(c)

\* ------------------------------------------------------------------ C4

\* C4: connect() called while the state is connected returns in the step
\* of the call: it makes no underlying connect call, leaves the state, both
\* handles and the shutdown flag as they were and invokes no callback.
C4_ConnectWhileConnectedIsNoOp ==
  [][\A c \in CallIds : (Starts(c, "connect") /\ state = "connected") =>
       /\ calls'[c].pc = "done"
       /\ calls'[c].result = "ok"
       /\ calls'[c].ret = 0
       /\ UNCHANGED <<managerFields, notified, broker>>]_vars

C4_Witness ==
  \E b, c \in CallIds :
    /\ b + 1 = c
    /\ calls[b].op = "connect" /\ calls[b].result = "ok" /\ calls[b].ret # 0
    /\ calls[c].op = "connect" /\ calls[c].result = "ok" /\ calls[c].ret = 0
    /\ connection = calls[b].ret
    /\ nextConn = 1
    /\ Len(stateCallbacks) > 0

\* ------------------------------------------------------------------ C5

\* C5: when a connect() call made on a disconnected manager settles, every
\* registered observer has received, since the call was made, exactly
\* [connecting, connected] if the call succeeded and exactly [connecting,
\* disconnected] if all attempts failed.
C5_ObserverSeesTwoTransitions ==
  [][\A c \in CallIds :
       (Settles(c) /\ calls[c].op = "connect"
          /\ calls[c].startState = "disconnected") =>
         \A o \in Registered :
           Seen(notified', o, calls[c].startLog) =
             IF calls'[c].result = "ok"
               THEN <<"connecting", "connected">>
               ELSE <<"connecting", "disconnected">>]_vars

\* ------------------------------------------------------------------ C6

\* C6: the state is one of disconnected, connecting, connected, it is
\* disconnected as long as no call has been made, and no observer receives
\* the same state value twice in a row.
C6_NoRepeatedNotification ==
  /\ state \in States
  /\ calls[1].op = "none" => state = "disconnected"
  /\ \A o \in Registered :
       LET seen == Seen(notified, o, 0)
       IN \A i \in 1..(Len(seen) - 1) : seen[i] # seen[i + 1]

C6_Witness ==
  /\ Len(stateCallbacks) > 0
  /\ Len(notified) >= 3 * Len(stateCallbacks)
  /\ state = "disconnected"
  /\ \E b, c \in CallIds :
       /\ b < c
       /\ calls[b].op = "disconnect" /\ calls[b].pc = "done"
       /\ calls[c].op = "disconnect" /\ calls[c].pc = "done"

\* ------------------------------------------------------------------ C7

\* C7: a step that changes the state invokes every registered callback
\* once with the new state, in registration order, within that step (so
\* before the call that caused the change settles); a step that does not
\* change the state invokes none.
C7_NotifiedInRegistrationOrder ==
  [][/\ state' # state =>
          /\ Len(notified') = Len(notified) + Len(stateCallbacks)
          /\ SubSeq(notified', 1, Len(notified)) = notified
          /\ \A i \in 1..Len(stateCallbacks) :
               notified'[Len(notified) + i] = <<stateCallbacks[i], state'>>
     /\ state' = state => notified' = notified]_vars

C7_Witness ==
  /\ Len(stateCallbacks) = 2
  /\ Len(notified) >= 4
  /\ \E c \in CallIds : calls[c].op \in {"connect", "disconnect"} /\ calls[c].pc = "done"

\* ------------------------------------------------------------------ C8

\* C8: getChannel() called while the state is not connected fails with
\* NOT_CONNECTED in the step of the call: it makes no channel-creation call
\* and leaves the state and both handles as they were.
C8_GetChannelNotConnected ==
  [][\A c \in CallIds : (Starts(c, "getChannel") /\ state # "connected") =>
       /\ calls'[c].pc = "done"
       /\ calls'[c].result = "NOT_CONNECTED"
       /\ calls'[c].ret = 0
       /\ UNCHANGED <<managerFields, notified, broker>>]_vars

C8_Witness ==
  \E b, c \in CallIds :
    /\ b < c
    /\ calls[b].op = "connect" /\ calls[b].result = "ok" /\ calls[b].ret # 0
    /\ calls[c].op = "getChannel"
    /\ calls[c].result = "NOT_CONNECTED"
    /\ state = "disconnected"

\* ------------------------------------------------------------------ C9

\* C9: getChannel() called while connected with a channel held returns
\* that channel in the step of the call and makes no channel-creation call;
\* called while connected with no channel held it makes exactly one
\* channel-creation call.
C9_GetChannelReusesChannel ==
  [][\A c \in CallIds :
       (Starts(c, "getChannel") /\ state = "connected" /\ connection # 0) =>
         /\ channel # 0 =>
              /\ calls'[c].pc = "done"
              /\ calls'[c].result = "ok"
              /\ calls'[c].ret = channel
              /\ UNCHANGED <<managerFields, notified, broker>>
         /\ channel = 0 =>
              /\ calls'[c].pc = "awaitCreateChannel"
              /\ calls'[c].creates = 1
              /\ calls'[c].target = connection]_vars

C9_Witness ==
  \E b, c \in CallIds :
    /\ b + 1 = c
    /\ calls[b].op = "getChannel" /\ calls[b].result = "ok"
    /\ calls[c].op = "getChannel" /\ calls[c].result = "ok"
    /\ calls[b].ret # 0
    /\ calls[c].ret = calls[b].ret
    /\ nextChan = 1

\* ----------------------------------------------------------------- C10

\* C10: a disconnect() call settles without error, and at that moment the
\* state is disconnected and both the channel handle and the connection
\* handle are none.
C10_DisconnectClearsBothHandles ==
  [][\A c \in CallIds : (Settles(c) /\ calls'[c].op = "disconnect") =>
       /\ calls'[c].result = "ok"
       /\ state' = "disconnected"
       /\ connection' = 0
       /\ channel' = 0]_vars

\* ----------------------------------------------------------------- C11

\* Call c runs one of its segments in this step.
Runs(c) == calls'[c] # calls[c]

\* C11: disconnect() tears down in a fixed order.  The step of the call
\* sets the shutdown flag, and it calls channel.close() on the held channel
\* if there is one; only when that call has settled does it clear the
\* channel handle and call connection.close() on the held connection if
\* there is one; only when that call has settled does it clear the
\* connection handle, set the state to disconnected and return.  No step of
\* a disconnect() that has not returned changes the state or invokes a
\* callback, and a connection close call is never followed by a channel
\* close call of the same disconnect().
C11_DisconnectTearsDownInOrder ==
  [][\A c \in CallIds :
       /\ Starts(c, "disconnect") =>
            /\ isShuttingDown'
            /\ channel # 0 =>
                 /\ calls'[c].pc = "awaitChannelClose"
                 /\ calls'[c].target = channel
            /\ (channel = 0 /\ connection # 0) =>
                 /\ calls'[c].pc = "awaitConnectionClose"
                 /\ calls'[c].target = connection
            /\ (channel = 0 /\ connection = 0) => calls'[c].pc = "done"
       /\ (calls[c].pc = "awaitChannelClose" /\ Runs(c)) =>
            /\ isShuttingDown
            /\ channel' = 0
            /\ connection # 0 =>
                 /\ calls'[c].pc = "awaitConnectionClose"
                 /\ calls'[c].target = connection
            /\ connection = 0 => calls'[c].pc = "done"
       /\ (calls[c].pc = "awaitConnectionClose" /\ Runs(c)) =>
            /\ isShuttingDown
            /\ connection' = 0
            /\ calls'[c].pc = "done"
       /\ (Runs(c) /\ calls'[c].op = "disconnect" /\ calls'[c].pc # "done") =>
            UNCHANGED <<state, notified>>
       /\ (Settles(c) /\ calls'[c].op = "disconnect") =>
            /\ state' = "disconnected"
            /\ calls'[c].result = "ok"]_vars

\* connect(), getChannel(), disconnect() one after the other: both handles
\* were held when disconnect() was called, no close event has been
\* delivered, and the connection is closed at the broker.
C11_Witness ==
  /\ calls[1].op = "connect" /\ calls[1].result = "ok" /\ calls[1].ret = 1
  /\ calls[2].op = "getChannel" /\ calls[2].result = "ok" /\ calls[2].ret = 1
  /\ calls[3].op = "disconnect" /\ calls[3].pc = "done"
  /\ connCloseFired = {} /\ chanCloseFired = {}
  /\ openConns = {} /\ openChans = {}
  /\ state = "disconnected" /\ connection = 0 /\ channel = 0
  /\ Len(stateCallbacks) > 0

\* ----------------------------------------------------------------- C12

\* C12: disconnect() called while the state is disconnected and neither
\* handle is held returns in the step of the call without error: it makes
\* no close call, invokes no callback and leaves the state disconnected and
\* both handles none (the shutdown flag is set).
C12_DisconnectWhenNotConnected ==
  [][\A c \in CallIds :
       (Starts(c, "disconnect") /\ state = "disconnected"
          /\ connection = 0 /\ channel = 0) =>
         /\ calls'[c].pc = "done"
         /\ calls'[c].result = "ok"
         /\ calls'[c].target = 0
         /\ isShuttingDown'
         /\ state' = "disconnected"
         /\ UNCHANGED <<connection, channel, stateCallbacks, notified, broker>>]_vars

\* disconnect() as the first call on a new manager with an observer.
C12_Witness ==
  /\ calls[1].op = "disconnect" /\ calls[1].result = "ok"
  /\ calls[2].op = "none"
  /\ Len(stateCallbacks) > 0
  /\ notified = <<>>
  /\ nextConn = 0
  /\ state = "disconnected"
  /\ isShuttingDown

\* ----------------------------------------------------------------- C13

\* The 'close' event of a connection is delivered in this step.
ConnectionCloses == connCloseFired' # connCloseFired

\* C13: a connection 'close' event delivered while the state is connected
\* and the shutdown flag is not set sets the state to disconnected, clears
\* the connection handle and the channel handle, and invokes every
\* registered callback exactly once, with disconnected.
C13_UnexpectedConnectionClose ==
  [][(ConnectionCloses /\ state = "connected" /\ ~isShuttingDown) =>
       /\ state' = "disconnected"
       /\ connection' = 0
       /\ channel' = 0
       /\ Len(notified') = Len(notified) + Len(stateCallbacks)
       /\ SubSeq(notified', 1, Len(notified)) = notified
       /\ \A o \in Registered :
            Seen(notified', o, Len(notified)) = <<"disconnected">>]_vars

\* connect() and getChannel() succeeded, then the broker dropped the
\* connection: the channel handle was held when the event arrived (no
\* channel event and no disconnect() could have cleared it).
C13_Witness ==
  /\ \E c \in CallIds : calls[c].op = "getChannel" /\ calls[c].ret = 1
  /\ connCloseFired = {1}
  /\ chanCloseFired = {}
  /\ ~isShuttingDown
  /\ nextConn = 1
  /\ state = "disconnected" /\ connection = 0 /\ channel = 0
  /\ Len(stateCallbacks) = 2
  /\ Seen(notified, 1, 0) = <<"connecting", "connected", "disconnected">>

\* ----------------------------------------------------------------- C14

\* Call c calls amqplib.connect in this step.
MakesConnectAttempt(c) ==
  /\ calls'[c].pc = "awaitConnect"
  /\ calls'[c].attempts = calls[c].attempts + 1

\* The 'close' event of a channel is delivered in this step.
ChannelCloses == chanCloseFired' # chanCloseFired

ConnectInFlight(c) == calls[c].op = "connect" /\ calls[c].pc # "done"

C15_UnexpectedChannelClose ==
  [][/\ (ChannelCloses /\ ~isShuttingDown) =>
          /\ channel' = 0
          /\ UNCHANGED <<state, connection, isShuttingDown, stateCallbacks,
                         notified, calls, brokerConns>>
     /\ \A c \in CallIds :
          (Starts(c, "getChannel") /\ chanCloseFired # {} /\ channel = 0
             /\ state = "connected" /\ connection # 0) =>
            /\ calls'[c].pc = "awaitCreateChannel"
            /\ calls'[c].creates = 1
            /\ calls'[c].target = connection
     /\ \A c \in CallIds :
          (Settles(c) /\ calls[c].pc = "awaitCreateChannel"
             /\ calls'[c].result = "ok") =>
            /\ calls[c].creates = 1
            /\ calls'[c].ret = nextChan + 1
            /\ calls'[c].ret \in openChans' \ (openChans \cup chanCloseFired)
            /\ channel' = calls'[c].ret]_vars

\* The first channel was closed by the broker, the connection stayed, and
\* a second getChannel() returned a second channel.
C15_Witness ==
  /\ calls[1].op = "connect" /\ calls[1].ret = 1
  /\ calls[2].op = "getChannel" /\ calls[2].result = "ok" /\ calls[2].ret = 1
  /\ calls[3].op = "getChannel" /\ calls[3].result = "ok" /\ calls[3].ret = 2
  /\ chanCloseFired = {1}
  /\ connCloseFired = {}
  /\ ~isShuttingDown
  /\ state = "connected" /\ connection = 1 /\ channel = 2
  /\ Len(stateCallbacks) = 1
  /\ Seen(notified, 1, 0) = <<"connecting", "connected">>

\* ----------------------------------------------------------------- C16

\* An 'error' handler logs in this step.
ErrorLogged == lastErrorLog' # lastErrorLog

\* C16: an 'error' event of the connection or of the channel is only
\* logged.  The step that logs it leaves the state, both handles, the
\* shutdown flag and the callbacks as they were, closes nothing at the
\* broker, invokes no callback and settles or changes no call; and no other
\* step writes the error log.
C16_ErrorEventsOnlyLogged ==
  [][/\ ErrorLogged =>
          /\ lastErrorLog' \in {"Connection error", "Channel error"}
          /\ UNCHANGED <<managerFields, notified, broker, calls, config>>
     /\ (\E c \in CallIds : Runs(c)) => ~ErrorLogged
     /\ (ConnectionCloses \/ ChannelCloses) => ~ErrorLogged]_vars

\* A channel error logged on a connected manager that holds a channel: the
\* connection and the channel are still open and no call has failed.
C16_Witness ==
  /\ lastErrorLog = "Channel error"
  /\ state = "connected" /\ connection = 1 /\ channel = 1
  /\ 1 \in openConns /\ 1 \in openChans
  /\ ~isShuttingDown
  /\ Len(stateCallbacks) > 0
  /\ Len(notified) = 2 * Len(stateCallbacks)
  /\ \A c \in CallIds : calls[c].result \in {"none", "ok"}

\* ----------------------------------------------------------------- C17

\* What observer o has received since callback invocation from, when it
\* is what one disconnect() of a connected manager delivers: the first and
\* the last value are disconnected, and there is exactly one value unless
\* connect() calls running at the same time moved the state in between
\* (a connecting or connected value is among them).
OneDisconnected(o, from) ==
  LET seen == Seen(notified', o, from)
  IN /\ seen # <<>>
     /\ seen[1] = "disconnected"
     /\ seen[Len(seen)] = "disconnected"
     /\ (\A i \in 1..Len(seen) : seen[i] = "disconnected") => Len(seen) = 1

\* C17: a close event of the connection or of the channel delivered once
\* disconnect() has set the shutdown flag, during the call or after it,
\* changes neither the state nor a handle and invokes no callback; and when
\* a disconnect() called on a connected manager returns, every observer has
\* received exactly one disconnected notification since the call was made,
\* wherever the close events fell.
C17_NoSecondDisconnectedNotification ==
  [][/\ ((ConnectionCloses \/ ChannelCloses) /\ isShuttingDown) =>
          UNCHANGED <<state, connection, channel, notified, calls>>
     /\ \A c \in CallIds :
          (Settles(c) /\ calls[c].op = "disconnect"
             /\ calls[c].startState = "connected") =>
            \A o \in Registered : OneDisconnected(o, calls[c].startLog)
     /\ \A c \in CallIds :
          (Settles(c) /\ Starts(c, "disconnect") /\ state = "connected") =>
            \A o \in Registered : OneDisconnected(o, Len(notified))]_vars

\* disconnect() is waiting for connection.close() and the 'close' event of
\* that connection has already been delivered: the state is still
\* connected and the observer has not been called.
C17_Witness ==
  \E c \in CallIds :
    /\ calls[c].op = "disconnect"
    /\ calls[c].pc = "awaitConnectionClose"
    /\ calls[c].startState = "connected"
    /\ connCloseFired = {calls[c].target}
    /\ state = "connected"
    /\ Len(stateCallbacks) = 1
    /\ Seen(notified, 1, 0) = <<"connecting", "connected">>

\* ----------------------------------------------------------------- C18

\* C18: in every reachable state at most one connection opened by the
\* manager is open at the broker and at most one channel created by it is
\* open, and an open connection or channel is the one whose handle the
\* manager holds.
C18_AtMostOneLive ==
  /\ Cardinality(openConns) <= 1
  /\ Cardinality(openChans) <= 1
  /\ openConns \subseteq {connection}
  /\ openChans \subseteq {channel}

\* ----------------------------------------------------------------- C19

\* C19: once disconnect() has set the shutdown flag, a connect() call in
\* flight makes no further underlying connect attempt.
C19_NoAttemptAfterShutdown ==
  [][\A c \in CallIds :
       (isShuttingDown /\ ConnectInFlight(c)) => ~MakesConnectAttempt(c)]_vars

\* ----------------------------------------------------------------- C20

\* C20: disconnect() does not interrupt a connect() in progress.  No step
\* of a disconnect() call touches another call; a connect() call leaves
\* its backoff sleep only when the timer fires, with the delay it started
\* the sleep with, and goes on to its next attempt or to its failure; and
\* a connect() call that is in flight once the shutdown flag is set
\* finishes later on its own, returning after a successful attempt or
\* failing with CONNECTION_FAILED.
C20_DisconnectDoesNotInterruptConnect ==
  /\ [][\A c \in CallIds :
          /\ (Runs(c) /\ calls'[c].op = "disconnect") =>
               \A b \in CallIds \ {c} : calls'[b] = calls[b]
          /\ (calls[c].pc = "sleeping" /\ Runs(c)) =>
               /\ \A b \in CallIds \ {c} : calls'[b] = calls[b]
               /\ \/ /\ calls'[c].pc = "awaitConnect"
                     /\ calls'[c].sleeps = calls[c].sleeps
                     /\ calls'[c].attempts = calls[c].attempts + 1
                  \/ /\ calls'[c].pc = "done"
                     /\ calls'[c].result = "CONNECTION_FAILED"
          /\ (Settles(c) /\ calls'[c].op = "connect") =>
               calls'[c].result \in {"ok", "CONNECTION_FAILED"}]_vars
  /\ \A c \in CallIds :
       (ConnectInFlight(c) /\ isShuttingDown) ~>
         (calls[c].pc = "done" /\ calls[c].result \in {"ok", "CONNECTION_FAILED"})

\* disconnect() ran while the only connect() call was suspended (the
\* observer was told disconnected before connected), and the connect()
\* call went on and returned with the connection it opened.
C20_Witness ==
  /\ calls[1].op = "connect" /\ calls[1].result = "ok" /\ calls[1].ret = 1
  /\ calls[2].op = "disconnect" /\ calls[2].pc = "done"
  /\ calls[3].op = "none"
  /\ isShuttingDown
  /\ reconnectAttempts = 3
  /\ Len(stateCallbacks) = 1
  /\ Seen(notified, 1, 0) = <<"connecting", "disconnected", "connected">>
  /\ state = "connected" /\ connection = 1

\* ----------------------------------------------------------------- C21

\* C21: at most one connect() retry loop is active at a time: a connect()
\* call made while an earlier one has not settled calls amqplib.connect
\* no more, so at most one connect() call is in flight.
C21_OneRetryLoop ==
  /\ Cardinality({c \in CallIds : ConnectInFlight(c)}) <= 1

\* ----------------------------------------------------------------- C22

\* C22: in every reachable state a held channel handle comes with a held
\* connection handle and the state connected, and the state connected comes
\* with a held connection handle.
C22_ChannelImpliesConnection ==
  /\ channel # 0 => (connection # 0 /\ state = "connected")
  /\ state = "connected" => connection # 0

\* ----------------------------------------------------------------- C27

\* The amqplib.connect call of c rejects in this step.
AttemptFails(c) ==
  /\ calls[c].pc = "awaitConnect"
  /\ Runs(c)
  /\ ~(calls'[c].pc = "done" /\ calls'[c].result = "ok")

\* C27: connect() starts a backoff sleep only in the step in which an
\* attempt fails, and it does so exactly if more attempts remain and the
\* shutdown flag is not set; the sleep is for the backoff of that attempt.
\* An attempt that fails while the flag is set is followed at once by the
\* next attempt or by the failure of the call.
C27_SleepOnlyWithoutShutdown ==
  [][\A c \in CallIds :
       /\ (calls'[c].pc = "sleeping" /\ Runs(c)) => AttemptFails(c)
       /\ AttemptFails(c) =>
            IF calls[c].attempts < reconnectAttempts /\ ~isShuttingDown
              THEN /\ calls'[c].pc = "sleeping"
                   /\ calls'[c].sleeps =
                        Append(calls[c].sleeps,
                               reconnectDelayMs * 2 ^ (calls[c].attempts - 1))
                   /\ calls'[c].attempts = calls[c].attempts
              ELSE /\ calls'[c].pc # "sleeping"
                   /\ calls[c].attempts < reconnectAttempts =>
                        /\ calls'[c].pc = "awaitConnect"
                        /\ calls'[c].attempts = calls[c].attempts + 1
                        /\ calls'[c].sleeps = calls[c].sleeps
                   /\ calls[c].attempts = reconnectAttempts =>
                        /\ calls'[c].pc = "done"
                        /\ calls'[c].result = "CONNECTION_FAILED"]_vars

\* The first attempt failed with the shutdown flag set and two attempts
\* left: the second attempt is pending and the call has not slept.
C27_Witness ==
  \E c \in CallIds :
    /\ calls[c].op = "connect"
    /\ calls[c].pc = "awaitConnect"
    /\ calls[c].attempts = 2
    /\ calls[c].sleeps = <<>>
    /\ reconnectAttempts = 3
    /\ isShuttingDown

\* ----------------------------------------------------------------- C23

\* C23: the callback handles a delivered message by logging it and then
\* calling ack; if processing or the ack call throws it calls nack with
\* requeue = false.  No call it makes requeues the message, a message whose
\* ack succeeded gets no nack, and a null message is logged only: no ack and
\* no nack is called.
C23_AckOrNackWithoutRequeue ==
  LET h == handled
      IsAck(x) == x.op = "ack"
      IsNack(x) == x.op = "nack" /\ ~x.requeue /\ ~x.allUpTo
      n == Len(h.channelCalls)
  IN /\ h.kind = "null" =>
          /\ h.channelCalls = <<>>
          /\ ~h.acked /\ ~h.nacked
          /\ h.log = <<"warn: Received null message (consumer cancelled by server)">>
     /\ h.kind \in {"json", "raw"} =>
          /\ n \in {1, 2}
          /\ \A i \in 1..n : ~h.channelCalls[i].requeue
          /\ ~(h.acked /\ h.nacked)
          /\ h.acked =>
               /\ n = 1 /\ IsAck(h.channelCalls[1])
               /\ h.log = <<IF h.kind = "json"
                              THEN "info: Message received"
                              ELSE "warn: Failed to parse message as JSON, logging raw content">>
          /\ ~h.acked =>
               /\ IsNack(h.channelCalls[n])
               /\ n = 2 => IsAck(h.channelCalls[1])
               /\ \E i \in 1..Len(h.log) : h.log[i] = "error: Error processing message"
          /\ h.nacked => IsNack(h.channelCalls[n])

\* A JSON message was logged, its ack threw and it was nacked.
C23_Witness ==
  /\ handled.kind = "json"
  /\ Len(handled.channelCalls) = 2
  /\ ~handled.acked
  /\ handled.nacked
  /\ handled.log = <<"info: Message received", "error: Error processing message">>
  /\ isRunning

\* ----------------------------------------------------------------- C24

\* A step that starts the consumer call c as op.
StartsConsumerCall(c, op) == ccalls[c].op = "none" /\ ccalls'[c].op = op

\* C24: a start() made while the consumer is running, and a stop() made
\* while it is not running, return at once: the call makes no getChannel,
\* prefetch, assert, consume or cancel call, leaves the fields and the
\* broker's subscriptions as they are, and a settled call makes no call
\* later.  So a start() made after another start() has completed adds no
\* subscription to the one that start() created.
C24_StartStopIdempotent ==
  [][\A c \in CallIds :
       /\ (\/ StartsConsumerCall(c, "start") /\ isRunning
           \/ StartsConsumerCall(c, "stop") /\ ~isRunning) =>
            /\ ccalls'[c].pc = "done"
            /\ ccalls'[c].result = "ok"
            /\ ccalls'[c].ops = <<>>
            /\ subscriptions' = subscriptions
            /\ UNCHANGED <<isRunning, consumerTag, nextTag, chansSeen>>
       /\ ccalls[c].pc = "done" => ccalls'[c] = ccalls[c]
       /\ (subscriptions' # subscriptions /\ ccalls'[c] # ccalls[c]
             /\ ccalls[c].op = "start") =>
            Cardinality(subscriptions') = Cardinality(subscriptions) + 1]_vars

\* One start() subscribed and completed, and the start() made after it
\* returned at once: there is one subscription.
C24_Witness ==
  /\ ccalls[1].op = "start" /\ ccalls[1].pc = "done"
  /\ ccalls[2].op = "start" /\ ccalls[2].pc = "done"
  /\ ccalls[2].result = "ok"
  /\ ccalls[3].op = "none"
  /\ isRunning
  /\ Cardinality(subscriptions) = 1
  /\ nextTag = 1

\* ----------------------------------------------------------------- C25

\* A step in which the promise of the consumer call c settles.
ConsumerCallSettles(c) == ccalls[c].pc # "done" /\ ccalls'[c].pc = "done"

\* C25: a stop() made on a running consumer does not return early, and
\* whenever it settles (getChannel() rejected, cancel rejected or cancel
\* resolved) it settles without error and leaves isRunning false and the
\* consumer tag cleared; a start() made when the consumer is not running
\* goes on to getChannel() and, when its consume call resolves, adds a
\* subscription with a new tag.
C25_StopAlwaysCompletes ==
  [][\A c \in CallIds :
       /\ (StartsConsumerCall(c, "stop") /\ isRunning) =>
            ccalls'[c].pc = "awaitGetChannel"
       /\ (ccalls[c].op = "stop" /\ ConsumerCallSettles(c)) =>
            /\ ccalls'[c].result = "ok"
            /\ ~isRunning'
            /\ consumerTag' = 0
       /\ (StartsConsumerCall(c, "start") /\ ~isRunning) =>
            ccalls'[c].pc = "awaitGetChannel"
       /\ (ccalls[c].op = "start" /\ ConsumerCallSettles(c)
             /\ ccalls'[c].result = "ok") =>
            /\ isRunning'
            /\ consumerTag' \notin {s.tag : s \in subscriptions}
            /\ \E s \in subscriptions' : s.tag = consumerTag']_vars

\* A stop() whose cancel did not go through completed without error, and
\* the start() made after it subscribed again under a new tag.
C25_Witness ==
  /\ ccalls[1].op = "start" /\ ccalls[1].pc = "done"
  /\ ccalls[2].op = "stop" /\ ccalls[2].pc = "done" /\ ccalls[2].result = "ok"
  /\ ccalls[3].op = "start" /\ ccalls[3].pc = "done" /\ ccalls[3].result = "ok"
  /\ isRunning
  /\ consumerTag = 2
  /\ Cardinality(subscriptions) = 2

\* ----------------------------------------------------------------- C26

\* C26: the delivery callback never lets an exception out: whatever of
\* processing, ack and nack throws, the callback returns, every message
\* that was not acked has the line 'Error processing message' in the log,
\* and one whose nack threw as well has 'Failed to nack message' as the
\* last line.
C26_CallbackNeverThrows ==
  /\ ~handled.raised
  /\ (handled.kind \in {"json", "raw"} /\ ~handled.acked) =>
       /\ \E i \in 1..Len(handled.log) :
            handled.log[i] = "error: Error processing message"
       /\ ~handled.nacked =>
            /\ Len(handled.log) >= 2
            /\ handled.log[Len(handled.log)] = "error: Failed to nack message"
            /\ handled.log[Len(handled.log) - 1] = "error: Error processing message"

\* The ack of a raw message threw and the nack after it threw as well:
\* both failures are in the log and the callback returned.
C26_Witness ==
  /\ handled.kind = "raw"
  /\ Len(handled.channelCalls) = 2
  /\ ~handled.acked
  /\ ~handled.nacked
  /\ ~handled.raised
  /\ Len(handled.log) = 3
  /\ handled.log[3] = "error: Failed to nack message"

\* ----------------------------------------------------------------- C30

\* The calls start() has made on its channel when it subscribes, with the
\* dead-letter queue enabled and disabled.
C30_CallsWithDLQ ==
  <<"prefetch", "assertExchange(dlx)", "assertQueue(main.dlq)",
    "bindQueue(main.dlq, dlx)", "assertQueue(main, dead-letter arguments)",
    "consume(main)">>
C30_CallsWithoutDLQ == <<"prefetch", "assertQueue(main)", "consume(main)">>

Count(log, x) == Cardinality({i \in 1..Len(log) : log[i] = x})

\* C28: the first signal, whichever it is, runs stopService and every
\* later signal changes nothing, so stopService is invoked once whatever
\* the signals are; the step in which stopService resolves calls
\* process.exit(0) and the step in which it rejects calls process.exit(1),
\* and the shutdown handler calls process.exit in no other step.
C28_ShutdownRunsOnce ==
  [][/\ signals' # signals =>
          IF signals = <<>>
            THEN /\ stopPc = "idle" /\ stopPc' = "awaitStop"
                 /\ Count(serviceLog', "stopService()") = 1
                 /\ Count(serviceLog', "consumer.stop()") = 1
            ELSE UNCHANGED <<stopPc, serviceLog, exitCodes, handlerIsShuttingDown>>
     /\ Count(serviceLog', "stopService()") = (IF signals' = <<>> THEN 0 ELSE 1)
     /\ Count(serviceLog', "stopService()") >= Count(serviceLog', "consumer.stop()")
     /\ Count(serviceLog', "stopService resolved") > Count(serviceLog, "stopService resolved")
          => exitCodes' = <<0>>
     /\ Count(serviceLog', "stopService rejected") > Count(serviceLog, "stopService rejected")
          => exitCodes' = <<1>>
     /\ (exitCodes' # exitCodes /\ mainPc' = mainPc) =>
          \/ Count(serviceLog', "stopService resolved") = 1 /\ exitCodes' = <<0>>
          \/ Count(serviceLog', "stopService rejected") = 1 /\ exitCodes' = <<1>>]_vars

\* SIGTERM ran stopService, SIGINT came while it was running and was
\* ignored, stopService completed and the process exited with code 0.
C28_Witness ==
  /\ signals = <<"SIGTERM", "SIGINT">>
  /\ Count(serviceLog, "stopService()") = 1
  /\ stopPc = "stopped"
  /\ exitCodes = <<0>>

\* ----------------------------------------------------------------- C29

\* The entry x is in the log before position i.
Before(log, x, i) == \E j \in 1..(i - 1) : log[j] = x

\* C29: consumer.start() is called only after connect() has resolved; once
\* connect() has rejected the consumer is never started and main has called
\* process.exit(1); disconnect() is called only after consumer.stop() has
\* resolved.
C29_StartAndStopOrdered ==
  /\ \A i \in 1..Len(serviceLog) :
       /\ serviceLog[i] = "consumer.start()" =>
            /\ Before(serviceLog, "connect() resolved", i)
            /\ ~Before(serviceLog, "connect() rejected", i)
       /\ serviceLog[i] = "disconnect()" =>
            Before(serviceLog, "consumer.stop() resolved", i)
       /\ serviceLog[i] = "connect() resolved" => Before(serviceLog, "connect()", i)
  /\ Count(serviceLog, "connect() rejected") > 0 =>
       /\ Count(serviceLog, "consumer.start()") = 0
       /\ mainPc = "failed"
       /\ exitCodes = <<1>>

\* The service started, connect() first and the consumer after it, and
\* was stopped, the consumer first and the connection after it.
C29_Witness ==
  /\ mainPc = "started"
  /\ stopPc = "stopped"
  /\ Count(serviceLog, "consumer.start()") = 1
  /\ Count(serviceLog, "disconnect()") = 1

\* ----------------------------------------------------------------- C31

\* C31: the step in which disconnect() is called sets the shutdown flag
\* and no step clears it, a connect() that succeeds included; so a 'close'
\* event of the connection or of the channel delivered while the flag is
\* set, after a later connect() succeeded as well, leaves the state, both
\* handles and the callbacks' log as they are.
C31_ShutdownFlagNeverCleared ==
  [][/\ isShuttingDown => isShuttingDown'
     /\ \A c \in CallIds : Starts(c, "disconnect") => isShuttingDown'
     /\ \A c \in CallIds :
          (isShuttingDown /\ ConnectSucceeds(c)) =>
            /\ isShuttingDown'
            /\ state' = "connected"
     /\ ((ConnectionCloses \/ ChannelCloses) /\ isShuttingDown) =>
          UNCHANGED <<state, connection, channel, notified>>]_vars

\* disconnect() was called, a later connect() succeeded, and the 'close'
\* event of the connection it installed has been delivered: the state is
\* still connected and the handle is still held.
C31_Witness ==
  /\ isShuttingDown
  /\ state = "connected"
  /\ connection # 0
  /\ connection \in connCloseFired
  /\ \E c \in CallIds : calls[c].op = "disconnect" /\ calls[c].pc = "done"

\* ----------------------------------------------------------------- C32

\* C32: once a disconnect() call has returned and as long as the caller
\* has made no connect() call after it, the state is disconnected and
\* neither handle is held; a connect() call made before it installs
\* nothing.
C32_DisconnectedUntilNewConnect ==
  \A d \in CallIds :
    (/\ calls[d].op = "disconnect"
     /\ calls[d].pc = "done"
     /\ \A c \in CallIds : c > d => calls[c].op # "connect") =>
      /\ state = "disconnected"
      /\ connection = 0
      /\ channel = 0

\* ----------------------------------------------------------------- C33

\* C33: every change of the state is disconnected -> connecting,
\* connecting -> connected, connecting -> disconnected or
\* connected -> disconnected, and every observer that receives connected
\* has received connecting just before it.
C33_OnlyFourTransitions ==
  [][/\ state' # state =>
          <<state, state'>> \in {<<"disconnected", "connecting">>,
                                <<"connecting", "connected">>,
                                <<"connecting", "disconnected">>,
                                <<"connected", "disconnected">>}
     /\ \A o \in Registered :
          LET seen == Seen(notified', o, 0)
          IN \A i \in 1..Len(seen) :
               seen[i] = "connected" => (i > 1 /\ seen[i - 1] = "connecting")]_vars

\* ----------------------------------------------------------------- C34

\* The 'close' event of connection k, of channel h, is delivered in this
\* step.
ConnectionClosesOf(k) == k \in connCloseFired' \ connCloseFired
ChannelClosesOf(h) == h \in chanCloseFired' \ chanCloseFired

\* C34: a 'close' event of a connection or of a channel other than the one
\* the manager holds leaves the held connection, the held channel and the
\* state as they are.
C34_StaleCloseIgnored ==
  [][/\ \A k \in ConnIds :
          (ConnectionClosesOf(k) /\ connection # 0 /\ k # connection) =>
            UNCHANGED <<connection, channel, state>>
     /\ \A h \in ChanIds :
          (ChannelClosesOf(h) /\ channel # 0 /\ h # channel) =>
            UNCHANGED <<connection, channel, state>>]_vars

\* ----------------------------------------------------------------- C35

\* C35: between the steps of the manager (no callback is running then),
\* the last state value each registered observer has received is the
\* current state, and an observer that has received nothing sees a manager
\* that is disconnected.
C35_ObserversAgreeWithState ==
  \A o \in Registered :
    LET seen == Seen(notified, o, 0)
    IN IF seen = <<>>
         THEN state = "disconnected"
         ELSE seen[Len(seen)] = state

\* Two observers have followed a connect(), the loss of the connection
\* and what came after: both have received the current state last.
C35_Witness ==
  /\ Len(stateCallbacks) = 2
  /\ connCloseFired # {}
  /\ Len(Seen(notified, 1, 0)) >= 3
  /\ Len(Seen(notified, 2, 0)) >= 3
  /\ state = "disconnected"

\* ----------------------------------------------------------------- C36

\* The consumer call c takes a step.
ConsumerCallRuns(c) == ccalls'[c] # ccalls[c]

\* C36: the running flag and the consumer tag are cleared only in a step
\* in which a stop() call settles; a step in which the broker drops
\* subscriptions (the channel is lost, the server cancels the consumer)
\* leaves them as they are.  So a start() made on a consumer that was
\* running when its subscription was lost finds isRunning true: it makes
\* no call and adds no subscription.
C36_RunningClearedOnlyByStop ==
  [][/\ ((isRunning /\ ~isRunning') \/ (consumerTag # 0 /\ consumerTag' = 0)) =>
          \E c \in CallIds : ccalls[c].op = "stop" /\ ConsumerCallSettles(c)
     /\ (subscriptions' # subscriptions /\ \A c \in CallIds : ~ConsumerCallRuns(c)) =>
          UNCHANGED <<isRunning, consumerTag>>
     /\ \A c \in CallIds :
          (/\ StartsConsumerCall(c, "start")
           /\ isRunning
           /\ \A s \in subscriptions : s.tag # consumerTag) =>
            /\ ccalls'[c].pc = "done"
            /\ ccalls'[c].ops = <<>>
            /\ subscriptions' = subscriptions
            /\ isRunning']_vars

\* The consumer subscribed, its channel was lost, and a start() returned
\* without subscribing: it counts as running and has no subscription.
C36_Witness ==
  /\ isRunning
  /\ consumerTag = 1
  /\ subscriptions = {}
  /\ handled.kind = "none"
  /\ ccalls[1].op = "start" /\ ccalls[1].pc = "done"
  /\ ccalls[2].op = "start" /\ ccalls[2].pc = "done" /\ ccalls[2].result = "ok"
  /\ ccalls[3].op = "none"
  /\ nextTag = 1

\* ----------------------------------------------------------------- C37

\* C37: the step in which the createChannel() call of a getChannel() call
\* fails settles the call with that failure and leaves the channel handle,
\* the connection handle, the state and the callbacks' log as they are; a
\* getChannel() call made afterwards on the connected manager with no
\* channel held calls createChannel() again.
C37_CreateChannelFailurePropagates ==
  [][\A c \in CallIds :
       /\ (calls[c].pc = "awaitCreateChannel" /\ Settles(c)
             /\ calls'[c].result # "ok") =>
            /\ calls'[c].result = "CREATE_FAILED"
            /\ calls'[c].ret = 0
            /\ UNCHANGED <<channel, connection, state, notified, isShuttingDown>>
       /\ (Starts(c, "getChannel") /\ state = "connected" /\ connection # 0
             /\ channel = 0) =>
            /\ calls'[c].pc = "awaitCreateChannel"
            /\ calls'[c].target = connection]_vars

\* A getChannel() call failed in createChannel(); the manager is still
\* connected with no channel, and the next getChannel() call is creating
\* one.
C37_Witness ==
  /\ calls[1].op = "connect" /\ calls[1].pc = "done"
  /\ calls[2].op = "getChannel" /\ calls[2].pc = "done"
  /\ calls[2].result = "CREATE_FAILED"
  /\ calls[3].op = "getChannel" /\ calls[3].pc = "awaitCreateChannel"
  /\ state = "connected"
  /\ connection # 0
  /\ channel = 0
  /\ notified = Notify(stateCallbacks, "connecting") \o Notify(stateCallbacks, "connected")
  /\ Len(stateCallbacks) > 0

\* ----------------------------------------------------------------- C38

\* C38: provided every pending amqplib.connect settles and every backoff
\* timer fires, every connect() call settles.  It never makes more than
\* reconnectAttempts underlying attempts; the step in which it returns
\* leaves the state connected, the step in which it fails gives
\* CONNECTION_FAILED after reconnectAttempts attempts and leaves the state
\* disconnected; and the state does not stay connecting forever.
C38_ConnectTerminates ==
  /\ [](\A c \in CallIds :
          ConnectInFlight(c) =>
            /\ calls[c].attempts \in 1..reconnectAttempts
            /\ Len(calls[c].sleeps) < reconnectAttempts)
  /\ [][\A c \in CallIds :
          (Settles(c) /\ calls'[c].op = "connect") =>
            \/ /\ calls'[c].result = "ok"
               /\ state' = "connected"
            \/ /\ calls'[c].result = "CONNECTION_FAILED"
               /\ calls[c].attempts = reconnectAttempts
               /\ calls'[c].errAttempts = reconnectAttempts
               /\ state' = "disconnected"]_vars
  /\ \A c \in CallIds : ConnectInFlight(c) ~> (calls[c].pc = "done")
  /\ (state = "connecting") ~> (state # "connecting")

\* A connect() call has used up its three attempts and failed: the state
\* is disconnected and no call is in flight.
C38_Witness ==
  /\ reconnectAttempts = 3
  /\ calls[1].op = "connect" /\ calls[1].pc = "done"
  /\ calls[1].result = "CONNECTION_FAILED"
  /\ calls[1].errAttempts = 3
  /\ calls[2].op = "none"
  /\ state = "disconnected"
  /\ nextConn = 0

\* ----------------------------------------------------------------- C39

\* C39: the callback of a delivery makes its ack and nack calls on the
\* channel of the subscription the message came from, the channel start()
\* called consume on, whatever channels the manager has handed out since.
C39_AckOnSubscriptionChannel ==
  [][(handled' # handled /\ handled'.channelCalls # <<>>) =>
       \E s \in subscriptions :
         /\ s.tag = handled'.tag
         /\ s.chan = handled'.chan
         /\ \A t \in subscriptions : t.tag = s.tag => t = s]_vars

\* The consumer holds a subscription on channel 1 and one on channel 2,
\* which the manager handed out later; a message of the first was acked on
\* channel 1.
C39_Witness ==
  /\ handled.kind = "json"
  /\ handled.acked
  /\ handled.tag = 1
  /\ handled.chan = 1
  /\ chansSeen = 2
  /\ subscriptions = {[tag |-> 1, chan |-> 1], [tag |-> 2, chan |-> 2]}

====
